---- MODULE Spec2Model ----
(***************************************************************************)
(* Model of the Octopus French Energy integration:                         *)
(*   - the refresh cycle of OctopusFrenchDataUpdateCoordinator             *)
(*     (coordinator.py), one action per resumption of the coroutine;       *)
(*   - the request time window (_compute_date_window);                     *)
(*   - the off-peak label parser parse_off_peak_hours (utils.py);          *)
(*   - the monthly aggregation and the tariff detection of the electricity *)
(*     sensors (sensor.py), applied to a snapshot drawn from small sets.   *)
(* Times are wall-clock hours since an epoch; a Python None is the string  *)
(* "None"; a Python str is a sequence of one-character strings.            *)
(***************************************************************************)
EXTENDS Integers, Sequences, FiniteSets, TLC

VARIABLES
    reading_frequency,  \* self.reading_frequency, set by __init__
    data,               \* self.data: the snapshot consumers read
    pc,                 \* where the refresh coroutine is suspended
    cycle,              \* number of refresh cycles started so far
    loc,                \* local variables of _fetch_all_data
    calls,              \* remote calls issued by the cycle in flight / last cycle
    outcome,            \* history of the last cycle: what _fetch_all_data and
                        \* _async_update_data returned or raised, and the
                        \* account response it received
    data_at_start,      \* history: self.data when the last cycle started
    window,             \* result of _compute_date_window in the window specification
    label,              \* argument of parse_off_peak_hours
    parsed,             \* what parse_off_peak_hours did with label
    sensor,             \* the electricity sensor entity: its key and self._current_month
    today,              \* what dt_util.now() returns, as [year, month]
    reads,              \* what the successive reads of native_value returned or raised
    tariff              \* what _detect_tariff_type_for_meter did with data

vars ==
    <<reading_frequency, data, pc, cycle, loc, calls, outcome, data_at_start,
      window, label, parsed, sensor, today, reads, tariff>>

coordVars == <<reading_frequency, data, pc, cycle, loc, calls, outcome, data_at_start>>
parseVars == <<label, parsed>>
sensorVars == <<sensor, today, reads, tariff>>

(***************************************************************************)
(* Bounds                                                                  *)
(***************************************************************************)
MaxCycles == 2
MaxMeters == 2
MaxNow == 30
MaxTokens == 2

(***************************************************************************)
(* Constants of the program                                                *)
(***************************************************************************)
None == "None"

FREQ_HOURLY == "HOUR_INTERVAL"
FREQ_DAILY == "DAY_INTERVAL"
FREQ_WEEKLY == "WEEK_INTERVAL"
FREQ_MONTHLY == "MONTH_INTERVAL"
DEFAULT_READING_FREQUENCY == FREQ_HOURLY

\* the frequencies the configuration accepts
SUPPORTED_READING_FREQUENCIES == {FREQ_HOURLY, FREQ_DAILY}

\* values the constructor may be given: the four named ones and two
\* unrecognized strings
Frequencies ==
    {FREQ_HOURLY, FREQ_DAILY, FREQ_WEEKLY, FREQ_MONTHLY, "hour_interval", "FORTNIGHT"}

HourlyWindowHours == 72
DailyWindowDays == 31
FallbackWindowDays == 7
HoursPerDay == 24

\* earliest value of dt_util.now() the model draws (hours since the epoch);
\* late enough that every window start is after the epoch
TimeBase == 1000

(***************************************************************************)
(* _compute_date_window                                                    *)
(***************************************************************************)
\* datetime.isoformat(): the date part and the time-of-day part, written
\* separately
isoformat(t) == [date |-> t \div HoursPerDay, time |-> t % HoursPerDay]

_compute_date_window_48h(now, freq) ==
    LET start == IF freq = FREQ_HOURLY THEN now - 48
                 ELSE IF freq = FREQ_DAILY THEN now - DailyWindowDays * HoursPerDay
                 ELSE now - FallbackWindowDays * HoursPerDay
    IN  <<isoformat(start), isoformat(now)>>

_compute_date_window(now, freq) ==
    LET start == IF freq = FREQ_HOURLY THEN now - HourlyWindowHours
                 ELSE IF freq = FREQ_DAILY THEN now - DailyWindowDays * HoursPerDay
                 ELSE now - FallbackWindowDays * HoursPerDay
    IN  <<isoformat(start), isoformat(now)>>

(***************************************************************************)
(* Values exchanged with the API client                                    *)
(***************************************************************************)
\* Python truthiness of an identifier: None and "" are falsy
Truthy(x) == x \notin {None, ""}

\* supply points; sp.get(key) of an absent key is None
MeterActive == [id |-> "PRM1", distributorStatus |-> "SERVC", poweredStatus |-> "ALIM"]
MeterTerminated == [id |-> "PRM2", distributorStatus |-> "RESIL", poweredStatus |-> "LIMI"]
MeterResilOnly == [id |-> "PRM3", distributorStatus |-> "RESIL", poweredStatus |-> "ALIM"]
MeterLimiOnly == [id |-> "", distributorStatus |-> None, poweredStatus |-> "LIMI"]

Meters == {MeterActive, MeterTerminated, MeterResilOnly, MeterLimiOnly}

\* sequences over S of length at most n
SeqsUpTo(S, n) == UNION {[1..k -> S] : k \in 0..n}

ElectricityLists == SeqsUpTo(Meters, MaxMeters)

GasMeter == [id |-> "PCE1"]
GasLists == {<<>>, <<GasMeter>>}

\* (account_id, account_number) pairs of a response: present, absent, empty
AccountIdentifiers ==
    { <<"ACC-ID", "A-1234">>, <<None, "A-1234">>, <<"", "A-1234">>,
      <<"ACC-ID", None>>, <<"ACC-ID", "">>, <<None, None>> }

\* What get_account_data may return in cycle c.  Every response carries the
\* number of the cycle that fetched it.
AccountResponses(c) ==
    { [cycle |-> c, account_id |-> ids[1], account_number |-> ids[2],
       has_supply_points |-> TRUE, electricity |-> el, gas |-> g,
       ledgers |-> [cycle |-> c]] :
         ids \in AccountIdentifiers, el \in ElectricityLists, g \in GasLists }
    \cup
    { [cycle |-> c, account_id |-> "ACC-ID", account_number |-> "A-1234",
       has_supply_points |-> FALSE, electricity |-> <<>>, gas |-> <<>>,
       ledgers |-> [cycle |-> c]] }

NoAccount ==
    [cycle |-> 0, account_id |-> None, account_number |-> None,
     has_supply_points |-> FALSE, electricity |-> <<>>, gas |-> <<>>,
     ledgers |-> [cycle |-> 0]]

\* a list of readings; the list literal [] belongs to no response (cycle 0)
EmptyReadings == [cycle |-> 0, items |-> <<>>]
ReadingsResponses(c) == { [cycle |-> c, items |-> it] : it \in {<<>>, <<"r1", "r2">>} }

NoIndex == [cycle |-> 0, value |-> None]
IndexResponses(c) == { NoIndex, [cycle |-> c, value |-> "index"] }

GasReadingsResponses(c) == { [cycle |-> c, items |-> <<"g1">>] }

\* dt_util.now() in cycle c: the host starts a cycle every scan interval
\* (DEFAULT_SCAN_INTERVAL minutes, one hour)
NowInCycle(c) == TimeBase + c

(***************************************************************************)
(* Exceptions                                                              *)
(***************************************************************************)
NoCause == [type |-> None, msg |-> None]
NoExc == [type |-> None, msg |-> None, cause |-> NoCause]
Exc(type, msg) == [type |-> type, msg |-> msg, cause |-> NoCause]

\* what an awaited API call may raise: two subclasses of Exception and
\* asyncio.CancelledError, which derives from BaseException only
ApiErrors ==
    { Exc("ClientError", "connection reset"), Exc("TimeoutError", ""),
      Exc("CancelledError", "") }

\* isinstance(err, Exception)
IsException(e) == e.type \in {"UpdateFailed", "ClientError", "TimeoutError", "KeyError"}

UpdateFailed(msg) == Exc("UpdateFailed", msg)

\* raise UpdateFailed(f"Error communicating with API: {err}") from err
UpdateFailedFrom(err) ==
    [type |-> "UpdateFailed", msg |-> "Error communicating with API",
     cause |-> [type |-> err.type, msg |-> err.msg]]

NoData == [empty |-> TRUE]

\* how a coroutine ends: with a value, or with an exception
Returned(v) == [kind |-> "return", exc |-> NoExc, value |-> v]
Raised(e) == [kind |-> "raise", exc |-> e, value |-> NoData]
NotEnded == [kind |-> "none", exc |-> NoExc, value |-> NoData]

(***************************************************************************)
(* _async_update_data: the try/except around _fetch_all_data               *)
(***************************************************************************)
_async_update_data_swallow(fetched) ==
    IF fetched.kind = "raise" THEN Returned(NoData) ELSE fetched

_async_update_data_rewrap_all(fetched) ==
    IF fetched.kind = "raise" /\ IsException(fetched.exc)
    THEN Raised(UpdateFailedFrom(fetched.exc))
    ELSE fetched

_async_update_data(fetched) ==
    IF fetched.kind # "raise" THEN fetched
    ELSE IF fetched.exc.type = "UpdateFailed" THEN fetched
    ELSE IF IsException(fetched.exc) THEN Raised(UpdateFailedFrom(fetched.exc))
    ELSE fetched

(***************************************************************************)
(* _fetch_all_data, from the account response to the first request that    *)
(* depends on it                                                           *)
(***************************************************************************)
\* the comprehension's condition
ExcludedEither(sp) == sp.distributorStatus = "RESIL" \/ sp.poweredStatus = "LIMI"

Excluded(sp) == sp.distributorStatus = "RESIL" /\ sp.poweredStatus = "LIMI"

\* [sp for sp in seq if not Excluded(sp)], order kept
RECURSIVE FilterMeters(_)
FilterMeters(seq) ==
    IF seq = <<>> THEN <<>>
    ELSE IF Excluded(Head(seq)) THEN FilterMeters(Tail(seq))
    ELSE <<Head(seq)>> \o FilterMeters(Tail(seq))

\* points[0]["id"] if points else None
LastId(points) == IF points # <<>> THEN points[Len(points)].id ELSE None
FirstId(points) == IF points # <<>> THEN points[1].id ELSE None

NoTime == [date |-> 0, time |-> 0]

NoLocals ==
    [account_data |-> NoAccount, account_id |-> None,
     electricity_meter_id |-> None, gas_meter_id |-> None,
     elec_start |-> NoTime, elec_end |-> NoTime,
     electricity_readings |-> EmptyReadings, elec_index |-> NoIndex]

\* the exception raised between the account response and the window
\* computation, NoExc when none is
ValidateNothing(account_data) == NoExc

ValidateNoNumber(account_data) ==
    IF ~Truthy(account_data.account_id)
    THEN UpdateFailed("Missing account_id in API response")
    ELSE IF ~account_data.has_supply_points
    THEN Exc("KeyError", "supply_points")
    ELSE NoExc

Validate(account_data) ==
    IF ~Truthy(account_data.account_id)
    THEN UpdateFailed("Missing account_id in API response")
    ELSE IF ~Truthy(account_data.account_number)
    THEN UpdateFailed("Missing account_number in API response")
    ELSE IF ~account_data.has_supply_points
    THEN Exc("KeyError", "supply_points")
    ELSE NoExc

\* the locals once the account response is validated and filtered and the
\* window computed
LocalsAfterAccount(account_data, now, freq) ==
    LET filtered == [account_data EXCEPT !.electricity = FilterMeters(@)]
        w == _compute_date_window(now, freq)
    IN  [account_data |-> filtered,
         account_id |-> account_data.account_id,
         electricity_meter_id |-> FirstId(filtered.electricity),
         gas_meter_id |-> FirstId(filtered.gas),
         elec_start |-> w[1], elec_end |-> w[2],
         electricity_readings |-> EmptyReadings, elec_index |-> NoIndex]

\* self.data while _fetch_all_data runs: the method binds local names only
\* and assigns nothing to self.data
DataWhileFetchingMerged(self_data, l) ==
    IF "electricity" \in DOMAIN self_data
    THEN [self_data EXCEPT !.electricity.readings = l.electricity_readings]
    ELSE self_data

DataWhileFetching(self_data, l) == self_data

(***************************************************************************)
(* The rest of _fetch_all_data and the host's DataUpdateCoordinator        *)
(***************************************************************************)
\* the dictionary _fetch_all_data returns
Snapshot(l, gas_readings) ==
    [cycle |-> l.account_data.cycle,
     account_id |-> l.account_id,
     account_number |-> l.account_data.account_number,
     supply_points |-> [electricity |-> l.account_data.electricity,
                        gas |-> l.account_data.gas],
     ledgers |-> l.account_data.ledgers,
     electricity |-> [readings |-> l.electricity_readings, index |-> l.elec_index],
     gas |-> gas_readings]

\* self.data = await self._async_update_data(): assigned only when the call
\* returns
_async_refresh(self_data, result) ==
    IF result.kind = "return" THEN result.value ELSE self_data

(***************************************************************************)
(* The refresh cycle                                                       *)
(***************************************************************************)
Call(fn, utility, meter_id, l) ==
    [fn |-> fn, utility |-> utility, meter_id |-> meter_id,
     start |-> l.elec_start, end |-> l.elec_end]

NoOutcome ==
    [fetched |-> NotEnded, result |-> NotEnded, got_account |-> FALSE,
     account_id |-> None, account_number |-> None, has_supply_points |-> FALSE,
     electricity |-> <<>>]

\* _fetch_all_data ends: _async_update_data handles what it returned or
\* raised and the host assigns self.data; out is the record of the cycle
Finish(fetched, out) ==
    LET result == _async_update_data(fetched)
    IN  /\ data' = _async_refresh(data, result)
        /\ outcome' = [out EXCEPT !.fetched = [fetched EXCEPT !.value = NoData],
                                  !.result = [result EXCEPT !.value = NoData]]
        /\ pc' = "idle"
        /\ loc' = NoLocals
        /\ UNCHANGED calls

\* the cycle goes on to its next request with the locals l
Await(next_pc, l, call, out) ==
    /\ pc' = next_pc
    /\ loc' = l
    /\ calls' = Append(calls, call)
    /\ data' = DataWhileFetching(data, l)
    /\ outcome' = out

\* the gas part of _fetch_all_data, entered with the locals l
GasPart(l, out) ==
    IF Truthy(l.gas_meter_id)
    THEN Await("await_gas", l, Call("get_energy_readings", "gas", l.gas_meter_id, l), out)
    ELSE Finish(Returned(Snapshot(l, EmptyReadings)), out)

\* the host's timer calls _async_update_data, which awaits get_account_data
StartRefresh ==
    /\ pc = "idle"
    /\ cycle < MaxCycles
    /\ cycle' = cycle + 1
    /\ pc' = "await_account"
    /\ calls' = <<Call("get_account_data", None, None, NoLocals)>>
    /\ loc' = NoLocals
    /\ outcome' = NoOutcome
    /\ data_at_start' = data
    /\ UNCHANGED <<reading_frequency, data, window, parseVars, sensorVars>>

\* get_account_data returns: validation, filter, meter ids, window, and the
\* readings request when there is an electricity meter
AccountDataReturns ==
    /\ pc = "await_account"
    /\ \E account_data \in AccountResponses(cycle) :
          LET err == Validate(account_data)
              l == LocalsAfterAccount(account_data, NowInCycle(cycle), reading_frequency)
              got == [outcome EXCEPT !.got_account = TRUE,
                                     !.account_id = account_data.account_id,
                                     !.account_number = account_data.account_number,
                                     !.has_supply_points = account_data.has_supply_points,
                                     !.electricity = account_data.electricity]
          IN  IF err # NoExc
              THEN Finish(Raised(err), got)
              ELSE IF Truthy(l.electricity_meter_id)
              THEN Await("await_readings", l,
                         Call("get_energy_readings", "electricity",
                              l.electricity_meter_id, l), got)
              ELSE GasPart(l, got)
    /\ UNCHANGED <<reading_frequency, cycle, data_at_start, window, parseVars, sensorVars>>

\* get_energy_readings returns the electricity readings: the index request
ReadingsReturn ==
    /\ pc = "await_readings"
    /\ \E r \in ReadingsResponses(cycle) :
          LET l == [loc EXCEPT !.electricity_readings = r]
          IN  Await("await_index", l,
                    Call("get_electricity_index", "electricity",
                         l.electricity_meter_id, l), outcome)
    /\ UNCHANGED <<reading_frequency, cycle, data_at_start, window, parseVars, sensorVars>>

\* get_electricity_index returns
IndexReturns ==
    /\ pc = "await_index"
    /\ \E i \in IndexResponses(cycle) :
          GasPart([loc EXCEPT !.elec_index = i], outcome)
    /\ UNCHANGED <<reading_frequency, cycle, data_at_start, window, parseVars, sensorVars>>

\* get_energy_readings returns the gas readings: the snapshot is returned
GasReadingsReturn ==
    /\ pc = "await_gas"
    /\ \E g \in GasReadingsResponses(cycle) :
          Finish(Returned(Snapshot(loc, g)), outcome)
    /\ UNCHANGED <<reading_frequency, cycle, data_at_start, window, parseVars, sensorVars>>

\* the awaited API call raises, or the task is cancelled while it waits
RemoteCallRaises ==
    /\ pc \in {"await_account", "await_readings", "await_index", "await_gas"}
    /\ \E e \in ApiErrors : Finish(Raised(e), outcome)
    /\ UNCHANGED <<reading_frequency, cycle, data_at_start, window, parseVars, sensorVars>>

(***************************************************************************)
(* Python str and re, as parse_off_peak_hours uses them                     *)
(***************************************************************************)
DigitChars == <<"0", "1", "2", "3", "4", "5", "6", "7", "8", "9">>
IsDigit(c) == \E k \in 1..Len(DigitChars) : DigitChars[k] = c
DigitValue(c) == (CHOOSE k \in 1..Len(DigitChars) : DigitChars[k] = c) - 1

UpperChars ==
    {"A", "B", "C", "D", "E", "F", "G", "H", "I", "J", "K", "L", "M",
     "N", "O", "P", "Q", "R", "S", "T", "U", "V", "W", "X", "Y", "Z"}

\* int(digits)
RECURSIVE ToInt(_)
ToInt(ds) ==
    IF ds = <<>> THEN 0
    ELSE ToInt(SubSeq(ds, 1, Len(ds) - 1)) * 10 + DigitValue(ds[Len(ds)])

\* str(n) for n >= 0
RECURSIVE Decimal(_)
Decimal(n) ==
    IF n < 10 THEN <<DigitChars[n + 1]>>
    ELSE Decimal(n \div 10) \o <<DigitChars[(n % 10) + 1]>>

\* f"{n:02d}"
Format02d(n) == IF n < 10 THEN <<"0">> \o Decimal(n) ELSE Decimal(n)

\* the first index at or after i whose character is not a digit (Len(s) + 1
\* when the digits run to the end): where \d+ started at i stops
RECURSIVE DigitRunEnd(_, _)
DigitRunEnd(s, i) ==
    IF i <= Len(s) /\ IsDigit(s[i]) THEN DigitRunEnd(s, i + 1) ELSE i

\* the first index at or after i whose character is not in A-Z
RECURSIVE UpperRunEnd(_, _)
UpperRunEnd(s, i) ==
    IF i <= Len(s) /\ s[i] \in UpperChars THEN UpperRunEnd(s, i + 1) ELSE i

NoStr == [none |-> TRUE, s |-> <<>>]
Str(s) == [none |-> FALSE, s |-> s]

\* re.match(r"^([A-Z]+)", s): group 1, or no match (NoStr)
MatchType(s) ==
    LET e == UpperRunEnd(s, 1)
    IN  IF e > 1 THEN Str(SubSeq(s, 1, e - 1)) ELSE NoStr

\* (\d+)H(\d+)-(\d+)H(\d+) tried at index i.  Digits, "H" and "-" are
\* disjoint, so each \d+ takes its whole run of digits or the match fails.
MatchAt(s, i) ==
    LET e1 == DigitRunEnd(s, i)
        e2 == DigitRunEnd(s, e1 + 1)
        e3 == DigitRunEnd(s, e2 + 1)
        e4 == DigitRunEnd(s, e3 + 1)
        ok == /\ e1 > i /\ e1 <= Len(s) /\ s[e1] = "H"
              /\ e2 > e1 + 1 /\ e2 <= Len(s) /\ s[e2] = "-"
              /\ e3 > e2 + 1 /\ e3 <= Len(s) /\ s[e3] = "H"
              /\ e4 > e3 + 1
    IN  IF ok
        THEN [ok |-> TRUE, end |-> e4,
              groups |-> <<SubSeq(s, i, e1 - 1), SubSeq(s, e1 + 1, e2 - 1),
                           SubSeq(s, e2 + 1, e3 - 1), SubSeq(s, e3 + 1, e4 - 1)>>]
        ELSE [ok |-> FALSE, end |-> i, groups |-> <<>>]

\* re.findall(time_pattern, s) from index i: leftmost matches, not overlapping
RECURSIVE FindAllFrom(_, _)
FindAllFrom(s, i) ==
    IF i > Len(s) THEN <<>>
    ELSE LET m == MatchAt(s, i)
         IN  IF m.ok THEN <<m.groups>> \o FindAllFrom(s, m.end)
             ELSE FindAllFrom(s, i + 1)

\* re.search in place of re.findall: the first match only
FindFirst(s) ==
    LET all == FindAllFrom(s, 1)
    IN  IF all = <<>> THEN <<>> ELSE <<all[1]>>

FindAll(s) == FindAllFrom(s, 1)

(***************************************************************************)
(* parse_off_peak_hours                                                    *)
(* Hours as floats rounded to 2 places are integers in hundredths of hour. *)
(***************************************************************************)
MinutesPerHour == 60
MinutesPerDay == 24 * 60

\* round(minutes / 60, 2), in hundredths: 100 * minutes / 60 is never half
\* way between two integers, so this is rounding to the nearest
RoundHours(minutes) == (minutes * 10 + 3) \div 6

\* datetime.time(hour, minute) raises ValueError outside 0..23 and 0..59
TimeIsValidLax(hour, minute) == hour \in 0..24 /\ minute \in 0..60
TimeIsValid(hour, minute) == hour \in 0..23 /\ minute \in 0..59

DefaultResultEmptyType ==
    [type |-> Str(<<>>), ranges |-> <<>>, total_hours |-> 0, range_count |-> 0]

DefaultResult ==
    [type |-> NoStr, ranges |-> <<>>, total_hours |-> 0, range_count |-> 0]

\* the dictionary appended for one match, given the four integers
CrossesMidnightStrict(start_minutes, end_minutes) == end_minutes < start_minutes

CrossesMidnight(start_minutes, end_minutes) == end_minutes <= start_minutes

TimeRange(start_hour, start_min, end_hour, end_min) ==
    LET start_minutes == start_hour * MinutesPerHour + start_min
        end_minutes == end_hour * MinutesPerHour + end_min
        crosses_midnight == CrossesMidnight(start_minutes, end_minutes)
        duration_minutes == IF ~crosses_midnight
                            THEN end_minutes - start_minutes
                            ELSE (MinutesPerDay - start_minutes) + end_minutes
    IN  [start |-> Format02d(start_hour) \o <<":">> \o Format02d(start_min),
         end |-> Format02d(end_hour) \o <<":">> \o Format02d(end_min),
         start_time |-> [hour |-> start_hour, minute |-> start_min],
         end_time |-> [hour |-> end_hour, minute |-> end_min],
         start_minutes |-> start_minutes,
         end_minutes |-> end_minutes,
         duration_minutes |-> duration_minutes,
         duration_hours |-> RoundHours(duration_minutes),
         cross_midnight |-> crosses_midnight]

\* the for loop over matches[k..]: the ranges appended, the minutes summed,
\* and the exception that ended the loop early (NoExc when it ran through)
RECURSIVE ParseLoop(_, _, _, _)
ParseLoop(matches, k, ranges, total_minutes) ==
    IF k > Len(matches)
    THEN [ranges |-> ranges, total_minutes |-> total_minutes, err |-> NoExc]
    ELSE LET start_hour == ToInt(matches[k][1])
             start_min == ToInt(matches[k][2])
             end_hour == ToInt(matches[k][3])
             end_min == ToInt(matches[k][4])
             r == TimeRange(start_hour, start_min, end_hour, end_min)
         IN  IF ~TimeIsValid(start_hour, start_min) \/ ~TimeIsValid(end_hour, end_min)
             THEN [ranges |-> ranges,
                   total_minutes |-> total_minutes + r.duration_minutes,
                   err |-> Exc("ValueError", "hour or minute out of range")]
             ELSE ParseLoop(matches, k + 1, Append(ranges, r),
                            total_minutes + r.duration_minutes)

\* the body of the try block: the result dictionary as the block leaves it and
\* the exception it raised
TryBlock(s) ==
    LET typed == [DefaultResult EXCEPT !.type = MatchType(s)]
        loop == ParseLoop(FindAll(s), 1, <<>>, 0)
        appended == [typed EXCEPT !.ranges = loop.ranges]
    IN  IF loop.err # NoExc
        THEN [result |-> appended, err |-> loop.err]
        ELSE [result |-> [appended EXCEPT !.total_hours = RoundHours(loop.total_minutes),
                                          !.range_count = Len(loop.ranges)],
              err |-> NoExc]

NotParsed == [done |-> FALSE, raised |-> FALSE, logged |-> FALSE, result |-> DefaultResult]

parse_off_peak_hours_no_except(off_peak_label) ==
    IF off_peak_label.none \/ off_peak_label.s = <<>>
    THEN [done |-> TRUE, raised |-> FALSE, logged |-> FALSE, result |-> DefaultResult]
    ELSE LET t == TryBlock(off_peak_label.s)
         IN  [done |-> TRUE, raised |-> t.err # NoExc, logged |-> FALSE,
              result |-> IF t.err # NoExc THEN DefaultResult ELSE t.result]

\* the whole function: what it returns, whether it let an exception out,
\* whether it logged a warning
parse_off_peak_hours(off_peak_label) ==
    IF off_peak_label.none \/ off_peak_label.s = <<>>
    THEN [done |-> TRUE, raised |-> FALSE, logged |-> FALSE, result |-> DefaultResult]
    ELSE LET t == TryBlock(off_peak_label.s)
         IN  [done |-> TRUE, raised |-> FALSE, logged |-> t.err # NoExc,
              result |-> t.result]

(***************************************************************************)
(* Labels given to the parser                                              *)
(***************************************************************************)
\* wall-clock times as written in a label, with the integers they denote
WrittenTimes ==
    { [h |-> <<"0", "0">>, m |-> <<"3", "0">>, hour |-> 0, minute |-> 30],
      [h |-> <<"2", "2">>, m |-> <<"0", "0">>, hour |-> 22, minute |-> 0],
      [h |-> <<"7">>, m |-> <<"5">>, hour |-> 7, minute |-> 5],
      [h |-> <<"2", "4">>, m |-> <<"0", "0">>, hour |-> 24, minute |-> 0],
      [h |-> <<"1", "2">>, m |-> <<"6", "0">>, hour |-> 12, minute |-> 60] }

\* "HHhMM-HHhMM"-shaped tokens, and two tokens the pattern does not match
ShapedTokens ==
    { [s |-> a.h \o <<"H">> \o a.m \o <<"-">> \o b.h \o <<"H">> \o b.m,
       shaped |-> TRUE, from |-> [hour |-> a.hour, minute |-> a.minute],
       to |-> [hour |-> b.hour, minute |-> b.minute]] : a, b \in WrittenTimes }

MalformedTokens ==
    { [s |-> <<"2", "2", "H", "0", "0", "_", "0", "6", "H", "0", "0">>,
       shaped |-> FALSE, from |-> [hour |-> 0, minute |-> 0],
       to |-> [hour |-> 0, minute |-> 0]],
      [s |-> <<"H", "3", "0", "-", "0", "6", "H">>,
       shaped |-> FALSE, from |-> [hour |-> 0, minute |-> 0],
       to |-> [hour |-> 0, minute |-> 0]] }

Tokens == ShapedTokens \cup MalformedTokens

\* what starts the label: a type, nothing, a lower-case word
Prefixes == { <<"H", "C">>, <<>>, <<"h", "c">> }

\* the tokens, each after a space
RECURSIVE Join(_)
Join(ts) == IF ts = <<>> THEN <<>> ELSE <<" ">> \o Head(ts).s \o Join(Tail(ts))

NoneLabel == [none |-> TRUE, s |-> <<>>, prefix |-> <<>>, parts |-> <<>>]

Labels ==
    {NoneLabel} \cup
    { [none |-> FALSE, s |-> p \o Join(ts), prefix |-> p, parts |-> ts] :
        p \in Prefixes, ts \in SeqsUpTo(Tokens, MaxTokens) }

(***************************************************************************)
(* sensor.py: what the electricity sensors read in the snapshot.           *)
(* The numbers delivered are decimals: an energy is given in thousandths   *)
(* of a kWh, estimatedAmount in cents. A sensor value, rounded to two       *)
(* decimals, is given in thousandths too.                                   *)
(* A mapping that may be absent or null is a kind "absent", "null" or      *)
(* "dict" ("list" for a list, "number" for a number in its place) next to  *)
(* its content.                                                            *)
(***************************************************************************)
MaxReadings == 2

NoNumber == [none |-> TRUE, n |-> 0]
Number(n) == [none |-> FALSE, n |-> n]

\* stat["costInclTax"]
CostAbsent == [kind |-> "absent", has_amount |-> FALSE, estimatedAmount |-> NoNumber]
CostWithoutAmount == [kind |-> "dict", has_amount |-> FALSE, estimatedAmount |-> NoNumber]
Cost(cents) == [kind |-> "dict", has_amount |-> TRUE, estimatedAmount |-> Number(cents)]

\* one element of metaData["statistics"]
Stat(stat_label, value, cost) ==
    [mapping |-> TRUE, label |-> stat_label, value |-> value, costInclTax |-> cost]
NullStat == [mapping |-> FALSE, label |-> None, value |-> NoNumber, costInclTax |-> CostAbsent]

StatsBase1 ==
    << Stat("BASE", Number(1004), CostAbsent),
       Stat("CONSO_BASE", Number(1004), Cost(1234)) >>
StatsBase2 ==
    << Stat("BASE", Number(2348), CostAbsent),
       Stat("CONSO_BASE", Number(2348), Cost(250)),
       Stat("STANDING_CHARGE", Number(7000), Cost(7000)) >>
StatsHpHc ==
    << Stat("HEURES_PLEINES", Number(1500), CostAbsent),
       Stat("HEURES_CREUSES", Number(502), CostAbsent),
       Stat("CONSO_HEURES_PLEINES", Number(1500), Cost(1234)),
       Stat("CONSO_HEURES_CREUSES", Number(502), CostAbsent) >>
StatsHpOnly ==
    << Stat("HEURES_PLEINES", NoNumber, CostAbsent),
       Stat("CONSO_HEURES_PLEINES", NoNumber, CostWithoutAmount) >>

\* reading["startAt"] as written by the API, with what the text denotes:
\* whether it is an ISO timestamp, and the "YYYY-MM" it is dated
StartJanLast ==
    [s |-> <<"2","0","2","4","-","0","1","-","3","1","T","2","3",":","5","9",":","5","9">>,
     iso |-> TRUE, month |-> <<"2","0","2","4","-","0","1">>]
StartFebFirst ==
    [s |-> <<"2","0","2","4","-","0","2","-","0","1","T","0","0",":","0","0",":","0","0">>,
     iso |-> TRUE, month |-> <<"2","0","2","4","-","0","2">>]
StartFebOffset ==
    [s |-> <<"2","0","2","4","-","0","2","-","0","1","T","0","0",":","3","0",":","0","0",
             "+","0","1",":","0","0">>,
     iso |-> TRUE, month |-> <<"2","0","2","4","-","0","2">>]
StartFeb30 ==
    [s |-> <<"2","0","2","4","-","0","2","-","3","0","T","1","0",":","0","0",":","0","0">>,
     iso |-> FALSE, month |-> <<>>]
WrittenStarts == {StartJanLast, StartFebFirst, StartFebOffset, StartFeb30}

\* one element of electricity["readings"]
Reading(startAt, metaData, statistics, stats) ==
    [mapping |-> TRUE, startAt |-> startAt, metaData |-> metaData,
     statistics |-> statistics, stats |-> stats]
ReadingWith(start, stats) == Reading(Str(start.s), "dict", "list", stats)
NullReading ==
    [mapping |-> FALSE, startAt |-> NoStr, metaData |-> "absent",
     statistics |-> "absent", stats |-> <<>>]

WellFormedReadings ==
    { ReadingWith(StartJanLast, StatsBase1),
      ReadingWith(StartJanLast, <<>>),
      ReadingWith(StartFebFirst, StatsBase2),
      ReadingWith(StartFebFirst, StatsHpHc),
      ReadingWith(StartFebOffset, StatsHpOnly),
      ReadingWith(StartFeb30, StatsHpHc),
      Reading(NoStr, "dict", "list", StatsBase2),
      Reading(Str(StartFebFirst.s), "absent", "absent", <<>>) }

MalformedReadings ==
    { NullReading,
      Reading(Str(StartFebFirst.s), "null", "absent", <<>>),
      Reading(Str(StartFebOffset.s), "dict", "null", <<>>),
      Reading(Str(StartFebOffset.s), "dict", "number", <<>>),
      ReadingWith(StartFebFirst, <<NullStat>>) }

Readings == WellFormedReadings \cup MalformedReadings

\* coordinator.data as the sensors see it
SensorData(electricity, readings, items) ==
    [electricity |-> electricity, readings |-> readings, items |-> items]
SensorSnapshots ==
    { SensorData("dict", "list", items) : items \in SeqsUpTo(Readings, MaxReadings) }
    \cup { SensorData("absent", "absent", <<>>), SensorData("null", "absent", <<>>),
           SensorData("dict", "absent", <<>>), SensorData("dict", "null", <<>>) }

\* what a read of a sensor does: it returns a value or raises
Value(v) == [raised |-> FALSE, exc |-> None, value |-> v]
Throws(type) == [raised |-> TRUE, exc |-> type, value |-> 0]

(***************************************************************************)
(* datetime.fromisoformat and strftime("%Y-%m")                            *)
(***************************************************************************)
AllDigits(s) == \A k \in 1..Len(s) : IsDigit(s[k])

IsLeap(year) == (year % 4 = 0 /\ year % 100 # 0) \/ year % 400 = 0

DaysInMonth(year, month) ==
    IF month = 2 THEN (IF IsLeap(year) THEN 29 ELSE 28)
    ELSE IF month \in {4, 6, 9, 11} THEN 30 ELSE 31

NoDateTime == [ok |-> FALSE, year |-> 0, month |-> 0]

\* date.fromisoformat of "YYYY-MM-DD"
ParseDate(s) ==
    IF /\ Len(s) = 10
       /\ AllDigits(SubSeq(s, 1, 4)) /\ s[5] = "-"
       /\ AllDigits(SubSeq(s, 6, 7)) /\ s[8] = "-"
       /\ AllDigits(SubSeq(s, 9, 10))
    THEN LET year == ToInt(SubSeq(s, 1, 4))
             month == ToInt(SubSeq(s, 6, 7))
             day == ToInt(SubSeq(s, 9, 10))
         IN  IF /\ year >= 1
                /\ month \in 1..12
                /\ day \in 1..DaysInMonth(year, month)
             THEN [ok |-> TRUE, year |-> year, month |-> month]
             ELSE NoDateTime
    ELSE NoDateTime

\* "HH:MM:SS" within the clock
ClockIsValid(s) ==
    /\ Len(s) = 8
    /\ AllDigits(SubSeq(s, 1, 2)) /\ s[3] = ":"
    /\ AllDigits(SubSeq(s, 4, 5)) /\ s[6] = ":"
    /\ AllDigits(SubSeq(s, 7, 8))
    /\ ToInt(SubSeq(s, 1, 2)) \in 0..23
    /\ ToInt(SubSeq(s, 4, 5)) \in 0..59
    /\ ToInt(SubSeq(s, 7, 8)) \in 0..59

\* "+HH:MM" or "-HH:MM"
OffsetIsValid(s) ==
    /\ Len(s) = 6
    /\ s[1] \in {"+", "-"}
    /\ AllDigits(SubSeq(s, 2, 3)) /\ s[4] = ":"
    /\ AllDigits(SubSeq(s, 5, 6))
    /\ ToInt(SubSeq(s, 2, 3)) \in 0..23
    /\ ToInt(SubSeq(s, 5, 6)) \in 0..59

\* datetime.fromisoformat(s) for a date, a date and a time, or a date, a time
\* and an offset; ok = FALSE is ValueError. The offset is kept with the
\* value and does not move the date.
fromisoformat_prefix(s) ==
    IF Len(s) >= 7 /\ AllDigits(SubSeq(s, 1, 4)) /\ AllDigits(SubSeq(s, 6, 7))
    THEN [ok |-> TRUE, year |-> ToInt(SubSeq(s, 1, 4)), month |-> ToInt(SubSeq(s, 6, 7))]
    ELSE NoDateTime
fromisoformat(s) ==
    IF Len(s) = 10 THEN ParseDate(s)
    ELSE IF Len(s) = 19 /\ ClockIsValid(SubSeq(s, 12, 19))
         THEN ParseDate(SubSeq(s, 1, 10))
    ELSE IF /\ Len(s) = 25
            /\ ClockIsValid(SubSeq(s, 12, 19))
            /\ OffsetIsValid(SubSeq(s, 20, 25))
         THEN ParseDate(SubSeq(s, 1, 10))
    ELSE NoDateTime

\* d.strftime("%Y-%m")
strftime_Y(d) == Decimal(d.year)
strftime_Y_m(d) == Decimal(d.year) \o <<"-">> \o Format02d(d.month)

\* dt_util.now(): the months the clock may be in
Months == { [year |-> 2024, month |-> 1], [year |-> 2024, month |-> 2] }

(***************************************************************************)
(* _safe_sorted_readings: sorted(readings, key=startAt or "")              *)
(***************************************************************************)
\* the characters of the timestamps, in code-point order
CodePointOrder ==
    <<"+", "-", "0", "1", "2", "3", "4", "5", "6", "7", "8", "9", ":", "T">>
Ord(c) == CHOOSE k \in 1..Len(CodePointOrder) : CodePointOrder[k] = c

\* a < b for two Python strings
RECURSIVE StrLess(_, _)
StrLess(a, b) ==
    IF b = <<>> THEN FALSE
    ELSE IF a = <<>> THEN TRUE
    ELSE IF a[1] = b[1] THEN StrLess(Tail(a), Tail(b))
    ELSE Ord(a[1]) < Ord(b[1])

\* x.get("startAt") or ""
SortKey(reading) == IF reading.startAt.none THEN <<>> ELSE reading.startAt.s

\* insertion of r after the elements that are not greater: the sort is stable
RECURSIVE InsertSorted(_, _)
InsertSorted(sorted, r) ==
    IF sorted = <<>> THEN <<r>>
    ELSE IF StrLess(SortKey(r), SortKey(sorted[Len(sorted)]))
         THEN InsertSorted(SubSeq(sorted, 1, Len(sorted) - 1), r) \o <<sorted[Len(sorted)]>>
         ELSE sorted \o <<r>>

RECURSIVE SortedReadings(_)
SortedReadings(readings) ==
    IF readings = <<>> THEN <<>>
    ELSE InsertSorted(SortedReadings(SubSeq(readings, 1, Len(readings) - 1)),
                      readings[Len(readings)])

\* the list returned, and the list passed as it is after the call: sorted()
\* builds a new list. The key raises AttributeError on an element that is not
\* a mapping; the except clause then returns the list passed.
_safe_sorted_readings_in_place(readings) ==
    IF \E k \in 1..Len(readings) : ~readings[k].mapping
    THEN [returned |-> readings, passed |-> readings]
    ELSE [returned |-> SortedReadings(readings), passed |-> SortedReadings(readings)]
_safe_sorted_readings(readings) ==
    IF \E k \in 1..Len(readings) : ~readings[k].mapping
    THEN [returned |-> readings, passed |-> readings]
    ELSE [returned |-> SortedReadings(readings), passed |-> readings]

(***************************************************************************)
(* Python float (IEEE 754 binary64), for values below 256 that are zero or *)
(* at least 2^-7: x is the natural number x * 2^60, written in base 2^15    *)
(* with the least significant limb first. Every result of an operation is  *)
(* rounded to 53 significant bits, ties to even.                           *)
(***************************************************************************)
LimbBase == 2^15

FloatZero == <<0, 0, 0, 0, 0, 0>>

\* the integer n as a float
FloatOfInt(n) == <<0, 0, 0, 0, n % LimbBase, n \div LimbBase>>

RECURSIVE AddLimbs(_, _, _, _)
AddLimbs(a, b, i, carry) ==
    IF i > Len(a) THEN <<>>
    ELSE LET sum == a[i] + b[i] + carry
         IN  <<sum % LimbBase>> \o AddLimbs(a, b, i + 1, sum \div LimbBase)

\* a + b, exactly
BigAdd(a, b) == AddLimbs(a, b, 1, 0)

RECURSIVE MulLimbs(_, _, _, _)
MulLimbs(a, m, i, carry) ==
    IF i > Len(a) THEN <<>>
    ELSE LET product == a[i] * m + carry
         IN  <<product % LimbBase>> \o MulLimbs(a, m, i + 1, product \div LimbBase)

\* a * m for a small m, exactly
BigMulSmall(a, m) == MulLimbs(a, m, 1, 0)

\* the limbs 1..i of a divided by a small m, r being the remainder carried
\* down from the limbs above: the quotient and the remainder
RECURSIVE DivLimbs(_, _, _, _)
DivLimbs(a, m, i, r) ==
    IF i = 0 THEN [q |-> <<>>, r |-> r]
    ELSE LET cur == r * LimbBase + a[i]
             rest == DivLimbs(a, m, i - 1, cur % m)
         IN  [q |-> rest.q \o <<cur \div m>>, r |-> rest.r]

BigDivSmall(a, m) == DivLimbs(a, m, Len(a), 0)

RECURSIVE BitsOf(_)
BitsOf(n) == IF n = 0 THEN 0 ELSE 1 + BitsOf(n \div 2)

\* the number of significant bits of a
BitLength(a) ==
    LET nonzero == { i \in 1..Len(a) : a[i] # 0 }
    IN  IF nonzero = {} THEN 0
        ELSE LET top == CHOOSE i \in nonzero : \A j \in nonzero : j <= i
             IN  15 * (top - 1) + BitsOf(a[top])

\* a, of which sticky tells that something below its last bit was dropped,
\* rounded to 53 significant bits: the d bits in excess go, the rest goes
\* up when they are more than half a unit, or half a unit and the rest is odd
RoundTo53(a, sticky) ==
    LET d == BitLength(a) - 53
    IN  IF d <= 0 THEN a
        ELSE LET unit == 2^d
                 low == a[1] % unit
                 odd == IF d < 15 THEN (a[1] \div unit) % 2 = 1 ELSE a[2] % 2 = 1
                 down == [a EXCEPT ![1] = a[1] - low]
                 up == \/ 2 * low > unit
                       \/ 2 * low = unit /\ (sticky \/ odd)
             IN  IF up
                 THEN BigAdd(down, [i \in 1..Len(a) |-> IF i = 1 THEN unit % LimbBase
                                                        ELSE IF i = 2 THEN unit \div LimbBase
                                                        ELSE 0])
                 ELSE down

\* the float nearest to n / m for integers n >= 0 and m > 0: float(n) / float(m)
FloatOfQuotient(n, m) ==
    LET division == BigDivSmall(FloatOfInt(n), m)
    IN  RoundTo53(division.q, division.r # 0)

\* float(v) for a number v written with three decimals, given in thousandths
float(thousandths) == FloatOfQuotient(thousandths, 1000)

\* a + b
FloatAdd(a, b) == RoundTo53(BigAdd(a, b), FALSE)

\* round(x, 2), in hundredths: the nearest multiple of 0.01 to the exact
\* value of x, the even one when x lies exactly halfway
RoundHundredths(x) ==
    LET scaled == BigMulSmall(x, 100)
        whole == scaled[5] + scaled[6] * LimbBase
        half == LimbBase \div 2
        below == scaled[1] + scaled[2] + scaled[3]
        up == \/ scaled[4] > half
              \/ scaled[4] = half /\ below > 0
              \/ scaled[4] = half /\ below = 0 /\ whole % 2 = 1
    IN  IF up THEN whole + 1 ELSE whole

(***************************************************************************)
(* OctopusElectricitySensor: the monthly aggregation                       *)
(***************************************************************************)
ConsumptionKeys == {"conso_base", "conso_hp", "conso_hc"}
CostKeys == {"cout_base", "cout_hp", "cout_hc"}
MonthlyKeys == ConsumptionKeys \cup CostKeys

_statistics_labels_for_key_any_label(key) ==
    [accepted_labels |-> {"BASE", "HEURES_PLEINES", "HEURES_CREUSES"},
     is_cost |-> key \in CostKeys]
_statistics_labels_for_key(key) ==
    CASE key = "conso_base" -> [accepted_labels |-> {"BASE"}, is_cost |-> FALSE]
      [] key = "conso_hp" -> [accepted_labels |-> {"HEURES_PLEINES"}, is_cost |-> FALSE]
      [] key = "conso_hc" -> [accepted_labels |-> {"HEURES_CREUSES"}, is_cost |-> FALSE]
      [] key = "cout_base" -> [accepted_labels |-> {"CONSO_BASE"}, is_cost |-> TRUE]
      [] key = "cout_hp" -> [accepted_labels |-> {"CONSO_HEURES_PLEINES"}, is_cost |-> TRUE]
      [] key = "cout_hc" -> [accepted_labels |-> {"CONSO_HEURES_CREUSES"}, is_cost |-> TRUE]
      [] OTHER -> [accepted_labels |-> {}, is_cost |-> FALSE]

\* float(estimatedAmount) / 100.0
CentsToMajorUnchanged(cents) == FloatOfInt(cents)
CentsToMajor(cents) == FloatOfQuotient(cents, 100)

\* round(total, 2), in thousandths
Round2(total) == 10 * RoundHundredths(total)

\* the body of "for stat in statistics" for one stat: what it adds to total,
\* or the exception it raises
AddOfStat(stat, sel) ==
    IF ~stat.mapping THEN Throws("AttributeError")
    ELSE IF stat.label \notin sel.accepted_labels THEN Value(FloatZero)
    ELSE IF ~sel.is_cost
         THEN (IF stat.value.none THEN Value(FloatZero) ELSE Value(float(stat.value.n)))
    ELSE IF stat.costInclTax.kind = "dict" /\ stat.costInclTax.has_amount
         THEN (IF stat.costInclTax.estimatedAmount.none
               THEN Throws("TypeError")
               ELSE Value(CentsToMajor(stat.costInclTax.estimatedAmount.n)))
    ELSE Value(FloatZero)

RECURSIVE StatLoop(_, _, _, _)
StatLoop(statistics, k, total, sel) ==
    IF k > Len(statistics) THEN Value(total)
    ELSE LET add == AddOfStat(statistics[k], sel)
         IN  IF add.raised THEN add
             ELSE StatLoop(statistics, k + 1, FloatAdd(total, add.value), sel)

\* reading.get("metaData", {}).get("statistics", []) or [], as the for
\* statement receives it: a number is truthy and cannot be iterated
StatisticsOf(reading) ==
    IF reading.metaData = "null" THEN Throws("AttributeError")
    ELSE IF reading.metaData = "dict" /\ reading.statistics = "number"
         THEN Throws("TypeError")
    ELSE IF reading.metaData = "dict" /\ reading.statistics = "list"
         THEN Value(reading.stats)
    ELSE Value(<<>>)

\* whether "for reading in sorted_readings" reaches the statistics of this
\* reading: its startAt is truthy, parses, and is dated current_month
InCurrentMonth(reading, current_month) ==
    /\ ~reading.startAt.none
    /\ reading.startAt.s # <<>>
    /\ LET date_obj == fromisoformat(reading.startAt.s)
       IN  date_obj.ok /\ strftime_Y_m(date_obj) = current_month

RECURSIVE ReadingLoop(_, _, _, _, _)
ReadingLoop(sorted_readings, k, total, current_month, sel) ==
    IF k > Len(sorted_readings) THEN Value(total)
    ELSE LET reading == sorted_readings[k]
         IN  IF ~reading.mapping THEN Throws("AttributeError")
             ELSE IF ~InCurrentMonth(reading, current_month)
                  THEN ReadingLoop(sorted_readings, k + 1, total, current_month, sel)
             ELSE LET statistics == StatisticsOf(reading)
                  IN  IF statistics.raised THEN statistics
                      ELSE LET sum == StatLoop(statistics.value, 1, total, sel)
                           IN  IF sum.raised THEN sum
                               ELSE ReadingLoop(sorted_readings, k + 1, sum.value,
                                                current_month, sel)

\* self.coordinator.data.get("electricity", {}).get("readings", []) or []
ReadingsOf(d) ==
    IF d.electricity = "null" THEN Throws("AttributeError")
    ELSE IF d.electricity = "dict" /\ d.readings = "list" THEN Value(d.items)
    ELSE Value(<<>>)

\* the value returned or the exception raised, for the sensor of this key
\* when the clock is in month now
_calculate_monthly_total(d, key, now) ==
    LET readings == ReadingsOf(d)
    IN  IF readings.raised THEN readings
        ELSE IF readings.value = <<>> THEN Value(0)
        ELSE LET total == ReadingLoop(_safe_sorted_readings(readings.value).returned, 1,
                                      FloatZero,
                                      strftime_Y_m(now),
                                      _statistics_labels_for_key(key))
             IN  IF total.raised THEN total ELSE Value(Round2(total.value))

\* the snapshot after _calculate_monthly_total has run on it
DataAfterTotal(d) ==
    IF d.electricity = "dict" /\ d.readings = "list" /\ d.items # <<>>
    THEN [d EXCEPT !.items = _safe_sorted_readings(d.items).passed]
    ELSE d

\* native_value of a sensor whose key starts with conso_ or cout_: the new
\* self._current_month and the outcome
native_value(self, d, now) ==
    [_current_month |-> Str(strftime_Y_m(now)),
     out |-> _calculate_monthly_total(d, self.key, now)]

(***************************************************************************)
(* _detect_tariff_type_for_meter                                           *)
(***************************************************************************)
Detected(v) == [done |-> TRUE, raised |-> FALSE, exc |-> None, value |-> v]
DetectionThrows(type) == [done |-> TRUE, raised |-> TRUE, exc |-> type, value |-> None]
NotDetected == [done |-> FALSE, raised |-> FALSE, exc |-> None, value |-> None]

\* {stat.get("label", "") for stat in statistics}
LabelsOf(statistics) == { statistics[k].label : k \in 1..Len(statistics) }

\* the rule on the labels of one reading
TariffOfLabelsEither(labels) ==
    IF "CONSO_BASE" \in labels THEN "BASE"
    ELSE IF "CONSO_HEURES_PLEINES" \in labels \/ "CONSO_HEURES_CREUSES" \in labels
         THEN "HPHC"
    ELSE "UNKNOWN"
TariffOfLabels(labels) ==
    IF "CONSO_BASE" \in labels THEN "BASE"
    ELSE IF "CONSO_HEURES_PLEINES" \in labels /\ "CONSO_HEURES_CREUSES" \in labels
         THEN "HPHC"
    ELSE "UNKNOWN"

\* the try block
DetectTry(d) ==
    LET electricity_readings == ReadingsOf(d)
    IN  IF electricity_readings.raised THEN DetectionThrows(electricity_readings.exc)
        ELSE IF electricity_readings.value = <<>> THEN Detected("UNKNOWN")
        ELSE LET latest_reading ==
                     electricity_readings.value[Len(electricity_readings.value)]
             IN  IF ~latest_reading.mapping THEN DetectionThrows("AttributeError")
                 ELSE LET statistics == StatisticsOf(latest_reading)
                      IN  IF statistics.raised THEN DetectionThrows(statistics.exc)
                          ELSE IF statistics.value = <<>> THEN Detected("UNKNOWN")
                          ELSE IF \E k \in 1..Len(statistics.value) :
                                      ~statistics.value[k].mapping
                               THEN DetectionThrows("AttributeError")
                          ELSE Detected(TariffOfLabels(LabelsOf(statistics.value)))

\* except (KeyError, IndexError, TypeError): return "UNKNOWN"
_detect_tariff_type_for_meter(d) ==
    LET r == DetectTry(d)
    IN  IF r.raised /\ r.exc \in {"KeyError", "IndexError", "TypeError"}
        THEN Detected("UNKNOWN")
        ELSE r

(***************************************************************************)
(* Specification of the sensors: a snapshot, a sensor key and a month are  *)
(* drawn; the sensor is read, the tariff is detected, the month may pass   *)
(***************************************************************************)
\* no window computed yet
NoWindow == [computed |-> FALSE, now |-> 0, start |-> NoTime, end |-> NoTime]

NoSensor == [key |-> None, _current_month |-> NoStr]
NoToday == [year |-> 0, month |-> 0]

SensorIdle ==
    /\ sensor = NoSensor
    /\ today = NoToday
    /\ reads = <<>>
    /\ tariff = NotDetected

InitSensor ==
    /\ reading_frequency = DEFAULT_READING_FREQUENCY
    /\ data \in SensorSnapshots
    /\ pc = "idle"
    /\ cycle = 0
    /\ loc = NoLocals
    /\ calls = <<>>
    /\ outcome = NoOutcome
    /\ data_at_start = NoData
    /\ window = NoWindow
    /\ label = NoneLabel
    /\ parsed = NotParsed
    /\ sensor \in { [key |-> key, _current_month |-> NoStr] : key \in MonthlyKeys }
    /\ today \in Months
    /\ reads = <<>>
    /\ tariff = NotDetected

\* a read of native_value, at most twice; the entry keeps the snapshot and
\* the month of the read next to its outcome
ReadNativeValue ==
    /\ Len(reads) < 2
    /\ LET r == native_value(sensor, data, today)
       IN  /\ sensor' = [sensor EXCEPT !._current_month = r._current_month]
           /\ data' = DataAfterTotal(data)
           /\ reads' = Append(reads, [now |-> today, month |-> strftime_Y_m(today),
                                      before |-> data,
                                      after |-> DataAfterTotal(data), out |-> r.out])
    /\ UNCHANGED <<reading_frequency, pc, cycle, loc, calls, outcome, data_at_start,
                   window, parseVars, today, tariff>>

DetectTariff ==
    /\ ~tariff.done
    /\ tariff' = _detect_tariff_type_for_meter(data)
    /\ UNCHANGED <<coordVars, window, parseVars, sensor, today, reads>>

\* the clock passes from one month to the next
MonthPasses ==
    /\ \E m \in Months : m.year = today.year /\ m.month = today.month + 1 /\ today' = m
    /\ UNCHANGED <<coordVars, window, parseVars, sensor, reads, tariff>>

NextSensor == ReadNativeValue \/ DetectTariff \/ MonthPasses

SpecSensor == InitSensor /\ [][NextSensor]_vars

(***************************************************************************)
(* Specification of the delivery order: the sensors read snapshots in      *)
(* which the source delivers several readings under one start timestamp    *)
(***************************************************************************)
BaseReading(start, thousandths) ==
    ReadingWith(start, << Stat("BASE", Number(thousandths), CostAbsent) >>)

SameStartReadings ==
    { BaseReading(StartFebFirst, 282),
      BaseReading(StartFebFirst, 300),
      BaseReading(StartFebFirst, 93),
      BaseReading(StartFebOffset, 93),
      ReadingWith(StartJanLast, StatsBase1) }

OrderSnapshots ==
    { SensorData("dict", "list", items) :
        items \in SeqsUpTo(SameStartReadings, MaxReadings + 1) }

InitOrder ==
    /\ reading_frequency = DEFAULT_READING_FREQUENCY
    /\ data \in OrderSnapshots
    /\ pc = "idle"
    /\ cycle = 0
    /\ loc = NoLocals
    /\ calls = <<>>
    /\ outcome = NoOutcome
    /\ data_at_start = NoData
    /\ window = NoWindow
    /\ label = NoneLabel
    /\ parsed = NotParsed
    /\ sensor \in { [key |-> key, _current_month |-> NoStr] : key \in MonthlyKeys }
    /\ today \in Months
    /\ reads = <<>>
    /\ tariff = NotDetected

SpecOrder == InitOrder /\ [][NextSensor]_vars

(***************************************************************************)
(* Specification of the parser: a label is drawn, the function is applied  *)
(***************************************************************************)
CoordinatorIdle ==
    /\ reading_frequency = DEFAULT_READING_FREQUENCY
    /\ data = NoData
    /\ pc = "idle"
    /\ cycle = 0
    /\ loc = NoLocals
    /\ calls = <<>>
    /\ outcome = NoOutcome
    /\ data_at_start = NoData

InitParse ==
    /\ CoordinatorIdle
    /\ window = NoWindow
    /\ label \in Labels
    /\ parsed = NotParsed
    /\ SensorIdle

ParseLabel ==
    /\ ~parsed.done
    /\ parsed' = parse_off_peak_hours(label)
    /\ UNCHANGED <<coordVars, window, label, sensorVars>>

NextParse == ParseLabel

SpecParse == InitParse /\ [][NextParse]_vars

(***************************************************************************)
(* Specification of the window: a frequency is configured, the window is   *)
(* computed at some time                                                   *)
(***************************************************************************)
InitWindow ==
    /\ CoordinatorIdle
    /\ window = NoWindow
    /\ label = NoneLabel
    /\ parsed = NotParsed
    /\ SensorIdle

Configure ==
    /\ ~window.computed
    /\ \E f \in Frequencies : reading_frequency' = f
    /\ UNCHANGED <<data, pc, cycle, loc, calls, outcome, data_at_start, window, parseVars, sensorVars>>

ComputeWindow ==
    /\ ~window.computed
    /\ \E now \in TimeBase..(TimeBase + MaxNow) :
          LET w == _compute_date_window(now, reading_frequency)
          IN  window' = [computed |-> TRUE, now |-> now, start |-> w[1], end |-> w[2]]
    /\ UNCHANGED <<coordVars, parseVars, sensorVars>>

NextWindow == Configure \/ ComputeWindow

SpecWindow == InitWindow /\ [][NextWindow]_vars

(***************************************************************************)
(* Specification of the refresh cycle                                      *)
(***************************************************************************)
Init ==
    /\ reading_frequency \in SUPPORTED_READING_FREQUENCIES
    /\ data = NoData
    /\ pc = "idle"
    /\ cycle = 0
    /\ loc = NoLocals
    /\ calls = <<>>
    /\ outcome = NoOutcome
    /\ data_at_start = NoData
    /\ window = NoWindow
    /\ label = NoneLabel
    /\ parsed = NotParsed
    /\ SensorIdle

Next ==
    \/ StartRefresh
    \/ AccountDataReturns
    \/ ReadingsReturn
    \/ IndexReturns
    \/ GasReadingsReturn
    \/ RemoteCallRaises

Spec == Init /\ [][Next]_vars

(***************************************************************************)
(* Properties of the refresh cycle (checked under Spec)                    *)
(***************************************************************************)
\* C1: when a refresh cycle fails (the fetch raises or times out, or the
\* validation of the account response fails), the snapshot consumers see
\* after the cycle is the snapshot they saw before it started.
C1_FailedCycleKeepsSnapshot ==
    (pc = "idle" /\ outcome.fetched.kind = "raise") => data = data_at_start

\* a second or later cycle has failed and the earlier snapshot is still there
C1_Witness ==
    /\ pc = "idle"
    /\ outcome.fetched.kind = "raise"
    /\ data # NoData
    /\ data.cycle < cycle

\* every part of snapshot d comes from the one cycle d.cycle (the literals []
\* and None, which come from no response, carry 0)
SnapshotFromOneCycle(d) ==
    /\ d.cycle \in 1..cycle
    /\ d.ledgers.cycle = d.cycle
    /\ d.electricity.readings.cycle \in {0, d.cycle}
    /\ d.electricity.index.cycle \in {0, d.cycle}
    /\ d.gas.cycle \in {0, d.cycle}

\* C2: in every state the current snapshot is in full the result of one
\* successful cycle: while a cycle is in flight self.data is what it was when
\* the cycle started, and a successful cycle leaves a snapshot made of its own
\* responses only.
C2_SnapshotReplacedWhole ==
    /\ data # NoData => SnapshotFromOneCycle(data)
    /\ pc # "idle" => data = data_at_start
    /\ (pc = "idle" /\ outcome.fetched.kind = "return") => (data # NoData /\ data.cycle = cycle)

\* a later cycle holds new readings in its locals while consumers still read
\* the whole earlier snapshot
C2_Witness ==
    /\ pc = "await_index"
    /\ data # NoData
    /\ data.cycle < cycle
    /\ loc.electricity_readings.cycle = cycle
    /\ loc.electricity_readings # data.electricity.readings

\* C3: an account response with an absent or empty account id or account
\* number ends the cycle with UpdateFailed, and no snapshot is produced.
C3_MissingIdentifierFails ==
    (outcome.got_account /\ (~Truthy(outcome.account_id) \/ ~Truthy(outcome.account_number)))
        => /\ pc = "idle"
           /\ outcome.fetched.kind = "raise"
           /\ outcome.result.kind = "raise"
           /\ outcome.result.exc.type = "UpdateFailed"
           /\ data = data_at_start

\* the id is there, the number is the empty string
C3_Witness ==
    /\ outcome.got_account
    /\ outcome.account_id = "ACC-ID"
    /\ outcome.account_number = ""
    /\ outcome.result.exc = UpdateFailed("Missing account_number in API response")

\* C4 as stated: every exception raised inside a cycle leaves it as
\* UpdateFailed, wrapped once with the original as cause, or passed through
\* unchanged when it is an UpdateFailed already.
C4_Original ==
    outcome.fetched.kind = "raise"
        => /\ outcome.result.kind = "raise"
           /\ outcome.result.exc.type = "UpdateFailed"
           /\ outcome.fetched.exc.type = "UpdateFailed"
                 => outcome.result.exc = outcome.fetched.exc
           /\ outcome.fetched.exc.type # "UpdateFailed"
                 => outcome.result.exc.cause =
                       [type |-> outcome.fetched.exc.type, msg |-> outcome.fetched.exc.msg]

\* C4 amended: the same for every exception that derives from Exception; one
\* that derives from BaseException only (asyncio.CancelledError) leaves the
\* cycle as it is.
C4_ExceptionsBecomeUpdateFailed ==
    outcome.fetched.kind = "raise"
        => /\ outcome.result.kind = "raise"
           /\ outcome.fetched.exc.type \in {"UpdateFailed", "ClientError", "TimeoutError", "KeyError"}
                 => outcome.result.exc.type = "UpdateFailed"
           /\ outcome.fetched.exc.type = "UpdateFailed"
                 => outcome.result.exc = outcome.fetched.exc
           /\ outcome.fetched.exc.type \in {"ClientError", "TimeoutError", "KeyError"}
                 => /\ outcome.result.exc.cause =
                          [type |-> outcome.fetched.exc.type, msg |-> outcome.fetched.exc.msg]
                    /\ outcome.result.exc.cause.type # "UpdateFailed"
           /\ outcome.fetched.exc.type = "CancelledError"
                 => outcome.result.exc = outcome.fetched.exc

\* a KeyError raised by the cycle's own code has been wrapped
C4_Witness ==
    /\ outcome.fetched.kind = "raise"
    /\ outcome.fetched.exc.type = "KeyError"
    /\ outcome.result.exc.type = "UpdateFailed"
    /\ outcome.result.exc.cause.type = "KeyError"

\* C5: after a successful refresh the snapshot's electricity meters are the
\* fetched ones, in order, without those that are both RESIL and LIMI.
C5_TerminatedMetersFiltered ==
    (pc = "idle" /\ outcome.fetched.kind = "return")
        => /\ data.supply_points.electricity =
                 SelectSeq(outcome.electricity,
                           LAMBDA sp : ~(sp.distributorStatus = "RESIL"
                                         /\ sp.poweredStatus = "LIMI"))
           /\ \A k \in 1..Len(data.supply_points.electricity) :
                 ~(data.supply_points.electricity[k].distributorStatus = "RESIL"
                   /\ data.supply_points.electricity[k].poweredStatus = "LIMI")
           /\ \A k \in 1..Len(outcome.electricity) :
                 (outcome.electricity[k].distributorStatus # "RESIL"
                  \/ outcome.electricity[k].poweredStatus # "LIMI")
                     => \E j \in 1..Len(data.supply_points.electricity) :
                           data.supply_points.electricity[j] = outcome.electricity[k]

\* a response listed a terminated meter before a RESIL meter that is not
\* LIMI: the snapshot holds the second one only
C5_Witness ==
    /\ pc = "idle"
    /\ outcome.fetched.kind = "return"
    /\ outcome.electricity = <<MeterTerminated, MeterResilOnly>>
    /\ data.supply_points.electricity = <<MeterResilOnly>>

(***************************************************************************)
(* Property of the window (checked under SpecWindow)                       *)
(***************************************************************************)
\* C6: the window computed at now = T ends at T and starts 72 hours before T
\* for HOUR_INTERVAL, 31 days before for DAY_INTERVAL and 7 days before for
\* any other frequency.
C6_WindowStart ==
    window.computed
        => /\ window.end = isoformat(window.now)
           /\ reading_frequency = "HOUR_INTERVAL"
                 => window.start = isoformat(window.now - 72)
           /\ reading_frequency = "DAY_INTERVAL"
                 => window.start = isoformat(window.now - 31 * 24)
           /\ reading_frequency \notin {"HOUR_INTERVAL", "DAY_INTERVAL"}
                 => window.start = isoformat(window.now - 7 * 24)

\* an hourly window: it starts three days before it ends, at the same hour
C6_Witness ==
    /\ window.computed
    /\ reading_frequency = "HOUR_INTERVAL"
    /\ window.start.date = window.end.date - 3
    /\ window.start.time = window.end.time

(***************************************************************************)
(* Properties of the parser (checked under SpecParse)                      *)
(***************************************************************************)
\* C7: a null label and the empty string both give the all-default result
\* (type null, no range, total_hours 0.0, range_count 0) and no failure.
C7_NullAndEmptyLabel ==
    (parsed.done /\ (label.none \/ label.s = <<>>))
        => /\ ~parsed.raised
           /\ parsed.result.type.none
           /\ parsed.result.ranges = <<>>
           /\ parsed.result.total_hours = 0
           /\ parsed.result.range_count = 0

\* the empty string has been parsed
C7_Witness ==
    /\ parsed.done
    /\ ~label.none
    /\ label.s = <<>>
    /\ parsed.result.type.none

\* the label is a type prefix followed by shaped tokens only
TypeAndShapedTokens ==
    /\ ~label.none
    /\ label.prefix = <<"H", "C">>
    /\ \A k \in 1..Len(label.parts) : label.parts[k].shaped

\* every token of the label writes wall-clock times
AllTimesOnTheClock ==
    \A k \in 1..Len(label.parts) :
        /\ label.parts[k].from.hour <= 23 /\ label.parts[k].from.minute <= 59
        /\ label.parts[k].to.hour <= 23 /\ label.parts[k].to.minute <= 59

RECURSIVE SumDurationHours(_)
SumDurationHours(ranges) ==
    IF ranges = <<>> THEN 0
    ELSE Head(ranges).duration_hours + SumDurationHours(Tail(ranges))

\* total_hours is the sum of the duration_hours up to the rounding of each
\* (half a hundredth per rounded value)
TotalWithinTolerance ==
    LET diff == parsed.result.total_hours - SumDurationHours(parsed.result.ranges)
    IN  /\ 2 * diff <= Len(parsed.result.ranges)
        /\ 2 * (0 - diff) <= Len(parsed.result.ranges)

\* C8 as stated: for every label made of a type prefix and shaped tokens,
\* range_count is the number of tokens and total_hours the sum of the
\* durations within rounding tolerance.
C8_Original ==
    (parsed.done /\ TypeAndShapedTokens)
        => /\ parsed.result.range_count = Len(label.parts)
           /\ Len(parsed.result.ranges) = Len(label.parts)
           /\ TotalWithinTolerance

\* C8 amended: the same for the labels whose tokens all have an hour of at
\* most 23 and a minute of at most 59.
C8_RangeCountAndTotal ==
    (parsed.done /\ TypeAndShapedTokens /\ AllTimesOnTheClock)
        => /\ parsed.result.range_count = Len(label.parts)
           /\ Len(parsed.result.ranges) = Len(label.parts)
           /\ TotalWithinTolerance

\* two ranges counted, with a total that is not the sum of the rounded
\* durations
C8_Witness ==
    /\ parsed.done
    /\ TypeAndShapedTokens
    /\ AllTimesOnTheClock
    /\ parsed.result.range_count = 2
    /\ parsed.result.total_hours # SumDurationHours(parsed.result.ranges)

\* C9: for every parsed range the minutes of day are hour*60 + minute, the
\* range is flagged cross_midnight exactly when end_minutes <= start_minutes,
\* and lasts (1440 - start_minutes) + end_minutes when flagged and
\* end_minutes - start_minutes otherwise; the hours and minutes are those the
\* label writes.
C9_RangeArithmetic ==
    parsed.done
        => /\ \A k \in 1..Len(parsed.result.ranges) :
                 LET r == parsed.result.ranges[k]
                 IN  /\ r.start_minutes = r.start_time.hour * 60 + r.start_time.minute
                     /\ r.end_minutes = r.end_time.hour * 60 + r.end_time.minute
                     /\ r.cross_midnight = (r.end_minutes <= r.start_minutes)
                     /\ r.cross_midnight
                           => r.duration_minutes = (1440 - r.start_minutes) + r.end_minutes
                     /\ ~r.cross_midnight
                           => r.duration_minutes = r.end_minutes - r.start_minutes
           /\ (~label.none /\ \A k \in 1..Len(label.parts) : label.parts[k].shaped)
                 => \A k \in 1..Len(parsed.result.ranges) :
                       /\ parsed.result.ranges[k].start_time = label.parts[k].from
                       /\ parsed.result.ranges[k].end_time = label.parts[k].to

\* a range that ends when it starts: flagged, a whole day long
C9_Witness ==
    /\ parsed.done
    /\ \E k \in 1..Len(parsed.result.ranges) :
          /\ parsed.result.ranges[k].end_minutes = parsed.result.ranges[k].start_minutes
          /\ parsed.result.ranges[k].cross_midnight
          /\ parsed.result.ranges[k].duration_minutes = 1440

\* the shaped tokens of the label, and the first of them that writes an hour
\* above 23 or a minute above 59 (0 when none does)
ShapedParts == SelectSeq(label.parts, LAMBDA t : t.shaped)

FirstOffClock ==
    LET bad == { k \in 1..Len(ShapedParts) :
                   \/ ShapedParts[k].from.hour > 23 \/ ShapedParts[k].from.minute > 59
                   \/ ShapedParts[k].to.hour > 23 \/ ShapedParts[k].to.minute > 59 }
    IN  IF bad = {} THEN 0 ELSE CHOOSE k \in bad : \A j \in bad : k <= j

\* C10: parse_off_peak_hours lets no failure out; when a token's hour is
\* above 23 or its minute above 59 the error is caught (and logged) and the
\* result returned is the default one or the partial one built before the
\* error: the type, the ranges before the offending token, total_hours 0.0
\* and range_count 0.
C10_NoFailurePropagates ==
    parsed.done
        => /\ ~parsed.raised
           /\ (~label.none /\ FirstOffClock > 0)
                 => /\ parsed.logged
                    /\ Len(parsed.result.ranges) = FirstOffClock - 1
                    /\ parsed.result.total_hours = 0
                    /\ parsed.result.range_count = 0
                    /\ parsed.result.type.none = (label.prefix # <<"H", "C">>)
           /\ (label.none \/ FirstOffClock = 0) => ~parsed.logged

\* an error was caught after one range had been appended
C10_Witness ==
    /\ parsed.done
    /\ parsed.logged
    /\ ~parsed.raised
    /\ Len(parsed.result.ranges) = 1
    /\ parsed.result.range_count = 0

(***************************************************************************)
(* What the claims on the monthly aggregation speak of                     *)
(***************************************************************************)
\* the reading's start timestamp is an ISO timestamp dated month
DatedIn(reading, month) ==
    /\ reading.mapping
    /\ ~reading.startAt.none
    /\ \E w \in WrittenStarts : w.s = reading.startAt.s /\ w.iso /\ w.month = month

\* the reading's start timestamp is absent or is not an ISO timestamp
Undated(reading) ==
    /\ reading.mapping
    /\ \/ reading.startAt.none
       \/ \E w \in WrittenStarts : w.s = reading.startAt.s /\ ~w.iso

\* the statistics of a reading, none when metaData or statistics is
\* absent or null
StatsListOf(reading) ==
    IF reading.metaData = "dict" /\ reading.statistics = "list"
    THEN reading.stats ELSE <<>>

RECURSIVE SumInts(_)
SumInts(ns) == IF ns = <<>> THEN 0 ELSE ns[1] + SumInts(Tail(ns))

\* the sum of F over the statistics of the readings dated month
SumOverMonth(items, month, F(_)) ==
    SumInts([k \in 1..Len(items) |->
                IF DatedIn(items[k], month)
                THEN SumInts([j \in 1..Len(StatsListOf(items[k])) |->
                                 F(StatsListOf(items[k])[j])])
                ELSE 0])

\* the label set of each sensor
LabelSet(key) ==
    CASE key = "conso_base" -> {"BASE"}
      [] key = "conso_hp" -> {"HEURES_PLEINES"}
      [] key = "conso_hc" -> {"HEURES_CREUSES"}
      [] key = "cout_base" -> {"CONSO_BASE"}
      [] key = "cout_hp" -> {"CONSO_HEURES_PLEINES"}
      [] key = "cout_hc" -> {"CONSO_HEURES_CREUSES"}

\* statistic.value of a statistic of the label set, in thousandths
ConsumptionOfStat(stat, key) ==
    IF stat.label \in LabelSet(key) /\ ~stat.value.none THEN stat.value.n ELSE 0

\* estimatedAmount / 100 of a statistic of the label set, in thousandths:
\* 1234 contributes 12.34, which is 12340 thousandths
CostOfStat(stat, key) ==
    IF stat.label \in LabelSet(key) /\ stat.costInclTax.kind = "dict"
       /\ stat.costInclTax.has_amount
    THEN stat.costInclTax.estimatedAmount.n * 10
    ELSE 0

\* the exact decimal that a statistic adds for the sensor of this key
ExactOfStat(stat, key) ==
    IF key \in ConsumptionKeys THEN ConsumptionOfStat(stat, key) ELSE CostOfStat(stat, key)

\* value is a multiple of 0.01 nearest to exact, both in thousandths
RoundedTo2Decimals(value, exact) ==
    /\ value % 10 = 0
    /\ value - exact \in (0 - 5)..5

\* C11: a read that returns has summed the readings whose start timestamp
\* is dated the current month "YYYY-MM" and no other reading: a reading dated
\* the last instant of the month before, or the first instant of the month
\* after, adds nothing
C11_MonthPartition ==
    \A k \in 1..Len(reads) :
        LET e == reads[k]
        IN  ~e.out.raised =>
                RoundedTo2Decimals(e.out.value,
                                   SumOverMonth(e.before.items, e.month,
                                                LAMBDA stat : ExactOfStat(stat, sensor.key)))

\* a January read of a snapshot holding a reading of the last second of
\* January and one of the first second of February counts the first only
C11_Witness ==
    \E k \in 1..Len(reads) :
        /\ sensor.key = "conso_base"
        /\ reads[k].month = StartJanLast.month
        /\ reads[k].before.items =
               <<ReadingWith(StartJanLast, StatsBase1), ReadingWith(StartFebFirst, StatsBase2)>>
        /\ reads[k].out = Value(1000)

\* C12 as stated: the total of a consumption sensor is the sum of
\* statistic.value over the statistics of its label set in the readings of
\* the current month
C12_Original ==
    \A k \in 1..Len(reads) :
        LET e == reads[k]
        IN  (sensor.key \in ConsumptionKeys /\ ~e.out.raised) =>
                e.out.value =
                    SumOverMonth(e.before.items, e.month,
                                 LAMBDA stat : ConsumptionOfStat(stat, sensor.key))

\* C12: the total of a consumption sensor is the sum of statistic.value over
\* the statistics of its label set in the readings of the current month,
\* rounded to two decimals; a statistic of another label adds nothing
C12_ConsumptionRounded ==
    \A k \in 1..Len(reads) :
        LET e == reads[k]
        IN  (sensor.key \in ConsumptionKeys /\ ~e.out.raised) =>
                RoundedTo2Decimals(e.out.value,
                                   SumOverMonth(e.before.items, e.month,
                                                LAMBDA stat : ConsumptionOfStat(stat, sensor.key)))

\* the off-peak sensor reads a February reading with four labels and
\* returns the value of HEURES_CREUSES alone, rounded
C12_Witness ==
    \E k \in 1..Len(reads) :
        /\ sensor.key = "conso_hc"
        /\ reads[k].month = StartFebFirst.month
        /\ \E j \in 1..Len(reads[k].before.items) :
               reads[k].before.items[j] = ReadingWith(StartFebFirst, StatsHpHc)
        /\ reads[k].out = Value(500)

\* C13: the total of a cost sensor is the sum, over the statistics of its
\* label set in the readings of the current month, of estimatedAmount / 100
\* where costInclTax is present and of zero where it is absent
C13_CostInMajorUnits ==
    \A k \in 1..Len(reads) :
        LET e == reads[k]
        IN  (sensor.key \in CostKeys /\ ~e.out.raised) =>
                RoundedTo2Decimals(e.out.value,
                                   SumOverMonth(e.before.items, e.month,
                                                LAMBDA stat : CostOfStat(stat, sensor.key)))

\* a cost sensor reads 1234 cents and returns 12.34
C13_Witness ==
    \E k \in 1..Len(reads) :
        /\ sensor.key = "cout_hp"
        /\ reads[k].month = StartFebFirst.month
        /\ reads[k].before.items = <<ReadingWith(StartFebFirst, StatsHpHc)>>
        /\ reads[k].out = Value(12340)

\* the snapshot without the readings whose start timestamp is absent or is
\* not an ISO timestamp
WithoutUndated(d) ==
    [d EXCEPT !.items = SelectSeq(d.items, LAMBDA reading : ~Undated(reading))]

\* the snapshot has an empty reading list, or none
NoReadings(d) ==
    /\ d.electricity \in {"absent", "dict"}
    /\ d.readings # "list" \/ d.items = <<>>

\* C14: a read of a snapshot whose reading list is empty or missing returns
\* 0.0, and a read does what it would do on the snapshot without the
\* readings whose start timestamp is absent or cannot be parsed
C14_EmptyAndUndatedReadings ==
    \A k \in 1..Len(reads) :
        LET e == reads[k]
        IN  /\ NoReadings(e.before) => e.out = Value(0)
            /\ WithoutUndated(e.before) # e.before =>
                   e.out = _calculate_monthly_total(WithoutUndated(e.before), sensor.key, e.now)

\* a February read returns the total of the February reading that stands
\* between a reading without startAt and one dated February 30
C14_Witness ==
    \E k \in 1..Len(reads) :
        /\ sensor.key = "conso_base"
        /\ reads[k].month = StartFebFirst.month
        /\ \E j \in 1..Len(reads[k].before.items) : Undated(reads[k].before.items[j])
        /\ \E j \in 1..Len(reads[k].before.items) :
               reads[k].before.items[j] = ReadingWith(StartFebFirst, StatsBase2)
        /\ reads[k].out = Value(2350)

OnlyOptionalFieldsMissing(d) ==
    /\ d.electricity \in {"absent", "dict"}
    /\ \A k \in 1..Len(d.items) :
           /\ d.items[k].mapping
           /\ d.items[k].statistics # "number"
           /\ \A j \in 1..Len(d.items[k].stats) : d.items[k].stats[j].mapping

\* C16: a read of a snapshot in which optional fields (metaData,
\* statistics, costInclTax) are absent or null returns a value and raises
\* nothing
C16_ReadNeverRaises ==
    \A k \in 1..Len(reads) :
        OnlyOptionalFieldsMissing(reads[k].before) => ~reads[k].out.raised

\* the labels of the statistics of the last reading as delivered, none when
\* there is no reading or no statistics
LabelsOfLastDelivered(d) ==
    IF NoReadings(d) THEN {}
    ELSE LET statistics == StatsListOf(d.items[Len(d.items)])
         IN  { statistics[k].label : k \in 1..Len(statistics) }

\* the last reading as delivered is a mapping whose statistics list is
\* empty or missing
NoStatisticsInLastDelivered(d) ==
    /\ d.electricity = "dict" /\ d.readings = "list" /\ d.items # <<>>
    /\ LET latest == d.items[Len(d.items)]
       IN  /\ latest.mapping
           /\ latest.metaData # "null"
           /\ latest.statistics \in {"absent", "list"}
           /\ StatsListOf(latest) = <<>>

\* C17: a detection that returns gives "BASE" when the labels of the last
\* reading as delivered hold CONSO_BASE, else "HPHC" when they hold both
\* CONSO_HEURES_PLEINES and CONSO_HEURES_CREUSES, else "UNKNOWN"; it returns
\* "UNKNOWN" when the reading list or the statistics list is empty or missing
C17_TariffOfLastDelivered ==
    /\ (tariff.done /\ ~tariff.raised) =>
           LET labels == LabelsOfLastDelivered(data)
           IN  tariff.value =
                   (IF "CONSO_BASE" \in labels THEN "BASE"
                    ELSE IF {"CONSO_HEURES_PLEINES", "CONSO_HEURES_CREUSES"} \subseteq labels
                         THEN "HPHC"
                    ELSE "UNKNOWN")
    /\ (tariff.done /\ (NoReadings(data) \/ NoStatisticsInLastDelivered(data)))
           => tariff = Detected("UNKNOWN")

\* a snapshot delivered latest first: the February reading has the peak and
\* off-peak labels, the January reading delivered last has CONSO_BASE, and
\* the tariff detected is "BASE"
C17_Witness ==
    /\ data.electricity = "dict"
    /\ data.items =
           <<ReadingWith(StartFebFirst, StatsHpHc), ReadingWith(StartJanLast, StatsBase1)>>
    /\ tariff = Detected("BASE")

\* C18: a detection on a snapshot with an electricity entry or none never
\* raises, whatever is missing, null or not a mapping among its readings
C18_DetectionNeverRaises ==
    (tariff.done /\ data.electricity \in {"absent", "dict"}) => ~tariff.raised

\* the calls of the cycle that concern the electricity meter
ElectricityCalls == SelectSeq(calls, LAMBDA c : c.utility = "electricity")

\* the account response of the cycle passed the validation
AccountAccepted ==
    /\ outcome.got_account
    /\ Truthy(outcome.account_id)
    /\ Truthy(outcome.account_number)
    /\ outcome.has_supply_points

\* C19: the readings and the index of electricity are requested for the
\* first meter of the filtered electricity list and only when there is one;
\* a cycle whose filtered list is empty issues neither request, ends by
\* returning unless its gas request raises, and its snapshot has empty
\* readings and a null index
C19_PrimaryMeterAndNoMeter ==
    LET filtered == FilterMeters(outcome.electricity)
    IN  /\ \A k \in 1..Len(ElectricityCalls) :
               /\ outcome.got_account
               /\ filtered # <<>>
               /\ ElectricityCalls[k].meter_id = filtered[1].id
        /\ (AccountAccepted /\ filtered # <<>> /\ Truthy(filtered[1].id)) =>
               /\ Len(ElectricityCalls) >= 1
               /\ ElectricityCalls[1].fn = "get_energy_readings"
        /\ (AccountAccepted /\ filtered = <<>> /\ pc = "idle") =>
               /\ \/ outcome.fetched.kind = "return"
                  \/ /\ calls[Len(calls)].utility = "gas"
                     /\ outcome.fetched.exc \in ApiErrors
               /\ outcome.fetched.kind = "return" =>
                      /\ data.cycle = cycle
                      /\ data.electricity.readings = EmptyReadings
                      /\ data.electricity.index = NoIndex

\* a cycle whose only electricity meter is terminated has ended by
\* returning a snapshot, having called neither readings nor index for it
C19_Witness ==
    /\ AccountAccepted
    /\ outcome.electricity = <<MeterTerminated>>
    /\ pc = "idle"
    /\ outcome.fetched.kind = "return"
    /\ ElectricityCalls = <<>>
    /\ data.cycle = cycle
    /\ data.electricity.readings = EmptyReadings

\* C20: every range of a result has start_minutes and end_minutes within
\* 0..1439 and duration_minutes within 1..1440
C20_RangesOnTheClock ==
    parsed.done =>
        \A k \in 1..Len(parsed.result.ranges) :
            LET r == parsed.result.ranges[k]
            IN  /\ r.start_minutes \in 0..(MinutesPerDay - 1)
                /\ r.end_minutes \in 0..(MinutesPerDay - 1)
                /\ r.duration_minutes \in 1..MinutesPerDay

\* a label whose first token is on the clock and whose second token has
\* hour 24 or minute 60 has been parsed: the result keeps the first range
\* only
C20_Witness ==
    /\ parsed.done
    /\ Len(label.parts) = 2
    /\ TimeIsValid(label.parts[1].from.hour, label.parts[1].from.minute)
    /\ TimeIsValid(label.parts[1].to.hour, label.parts[1].to.minute)
    /\ label.parts[2].shaped
    /\ \/ ~TimeIsValid(label.parts[2].from.hour, label.parts[2].from.minute)
       \/ ~TimeIsValid(label.parts[2].to.hour, label.parts[2].to.minute)
    /\ Len(parsed.result.ranges) = 1

RECURSIVE SumDurationMinutes(_)
SumDurationMinutes(ranges) ==
    IF ranges = <<>> THEN 0
    ELSE Head(ranges).duration_minutes + SumDurationMinutes(Tail(ranges))

\* C21: in every result returned, also after a caught error, range_count is
\* the length of the ranges list and total_hours is the sum of the durations
\* of the ranges of that list, in hours rounded to two decimals
C21_CountAndTotalOfReturnedRanges ==
    parsed.done =>
        /\ parsed.result.range_count = Len(parsed.result.ranges)
        /\ parsed.result.total_hours = RoundHours(SumDurationMinutes(parsed.result.ranges))

\* the ids of the meters that the filter keeps
FilteredIds ==
    LET filtered == FilterMeters(outcome.electricity)
    IN  { filtered[k].id : k \in 1..Len(filtered) }

\* C22: in a cycle the account request is the first call and the only one
\* of its kind; the electricity readings request is the second call, issued
\* only for an account response that passed the validation and for a meter
\* the filter kept; the index request is the third call, follows the
\* readings request and is absent while the readings request is pending; a
\* cycle whose account response fails the validation ends in failure with
\* the account request as its only call
C22_CallOrder ==
    /\ calls # <<>> => calls[1].fn = "get_account_data"
    /\ \A k \in 2..Len(calls) :
           /\ calls[k].fn # "get_account_data"
           /\ outcome.got_account
           /\ AccountAccepted
    /\ \A k \in 1..Len(calls) :
           (calls[k].fn = "get_energy_readings" /\ calls[k].utility = "electricity") =>
               /\ k = 2
               /\ calls[k].meter_id \in FilteredIds
    /\ \A k \in 1..Len(calls) :
           calls[k].fn = "get_electricity_index" =>
               /\ k = 3
               /\ calls[2].fn = "get_energy_readings"
               /\ calls[2].utility = "electricity"
               /\ pc # "await_readings"
               /\ pc = "await_index" => loc.electricity_readings.cycle = cycle
    /\ (outcome.got_account /\ ~AccountAccepted) =>
           /\ Len(calls) = 1
           /\ pc = "idle"
           /\ outcome.fetched.kind = "raise"

\* a cycle has issued the account, readings and index requests in this
\* order and waits for the index
C22_Witness ==
    /\ pc = "await_index"
    /\ Len(calls) = 3
    /\ calls[1].fn = "get_account_data"
    /\ calls[2].fn = "get_energy_readings"
    /\ calls[3].fn = "get_electricity_index"
    /\ loc.electricity_readings.cycle = cycle

\* the snapshot with its readings delivered in the order p
Redelivered(d, p) ==
    [d EXCEPT !.items = [k \in 1..Len(d.items) |-> d.items[p[k]]]]

\* C23: whatever the order in which the readings of a snapshot are
\* delivered, the sensor of the same key reads the same monthly total in the
\* same month
C23_TotalIndependentOfDeliveryOrder ==
    \A k \in 1..Len(reads) :
        LET e == reads[k]
        IN  \A p \in Permutations(1..Len(e.before.items)) :
                _calculate_monthly_total(Redelivered(e.before, p), sensor.key, e.now)
                    = e.out

\* with the start timestamps of the readings all different, the order of
\* delivery does not matter
DistinctStartsAgree ==
    \A k \in 1..Len(reads) :
        LET e == reads[k]
            items == e.before.items
        IN  (\A i, j \in 1..Len(items) : i # j => items[i].startAt # items[j].startAt)
                => \A p \in Permutations(1..Len(items)) :
                       _calculate_monthly_total(Redelivered(e.before, p), sensor.key, e.now)
                           = e.out

====
